---- MODULE Spec2Model ----
(***************************************************************************)
(* The three batch scripts of training/: prepare_dataset.py (label         *)
(* matching and the 80/20 split into a folder-per-class tree),             *)
(* train_yolov8_cls.py (YOLOv8 training, export, label manifest) and       *)
(* train_mobilenet.py (MobileNetV2 training, export, label manifest).      *)
(* One behaviour is one invocation of one script (prepare_dataset may be   *)
(* invoked again on the same inputs).  Text is modelled by TLA+ strings,   *)
(* read with Len, SubSeq and \o.                                           *)
(***************************************************************************)
EXTENDS Integers, Sequences, FiniteSets, TLC

\* ------------------------------------------------------------------------
\* Bounds of the model
\* ------------------------------------------------------------------------
\* examples of one PlantVillage label in a row at the end of the dataset
MaxRun == 11
\* examples of cycling labels at the head of the dataset
MaxMixed == 2
\* files in one local cocoa sub-directory
MaxCocoa == 3
\* invocations of prepare_dataset on the same inputs
MaxRuns == 2
\* examples train_mobilenet reads (PlantVillage and cocoa together)
MaxStream == 2

\* ------------------------------------------------------------------------
\* Python str operations
\* ------------------------------------------------------------------------
None == "<None>"

\* no exception, and an exception of a type raised at a place of a script
NoError == [type |-> "", at |-> ""]
Error(type, at) == [type |-> type, at |-> at]

Uppers == "ABCDEFGHIJKLMNOPQRSTUVWXYZ"
Lowers == "abcdefghijklmnopqrstuvwxyz"
\* the characters that occur, in code point order
CodeOrder == " (),.0123456789:ABCDEFGHIJKLMNOPQRSTUVWXYZ_abcdefghijklmnopqrstuvwxyz"

Char(s, i) == SubSeq(s, i, i)

\* p in s
Contains(s, p) ==
    \E i \in 1..(Len(s) - Len(p) + 1) : SubSeq(s, i, i + Len(p) - 1) = p

\* s.find(p) + 1: the position of the first occurrence, 0 when there is none
Find(s, p) ==
    LET hits == {i \in 1..(Len(s) - Len(p) + 1) : SubSeq(s, i, i + Len(p) - 1) = p}
    IN  IF hits = {} THEN 0 ELSE CHOOSE i \in hits : \A j \in hits : i <= j

EndsWith(s, p) == Len(s) >= Len(p) /\ SubSeq(s, Len(s) - Len(p) + 1, Len(s)) = p

LowerChar(c) ==
    LET at == {i \in 1..Len(Uppers) : Char(Uppers, i) = c}
    IN  IF at = {} THEN c ELSE Char(Lowers, CHOOSE i \in at : TRUE)

UpperChar(c) ==
    LET at == {i \in 1..Len(Lowers) : Char(Lowers, i) = c}
    IN  IF at = {} THEN c ELSE Char(Uppers, CHOOSE i \in at : TRUE)

RECURSIVE Lower(_)
\* s.lower()
Lower(s) == IF s = "" THEN "" ELSE LowerChar(Char(s, 1)) \o Lower(SubSeq(s, 2, Len(s)))

\* s.capitalize(): first character upper case, the rest lower case
Capitalize(s) ==
    IF s = "" THEN "" ELSE UpperChar(Char(s, 1)) \o Lower(SubSeq(s, 2, Len(s)))

\* s.split(sep, 1)
Split1(s, sep) ==
    LET at == Find(s, sep)
    IN  IF at = 0 THEN <<s>>
        ELSE <<SubSeq(s, 1, at - 1), SubSeq(s, at + Len(sep), Len(s))>>

Code(c) == CHOOSE i \in 1..Len(CodeOrder) : Char(CodeOrder, i) = c

RECURSIVE StrLess(_, _)
\* a < b on str: lexicographic by code point
StrLess(a, b) ==
    IF b = "" THEN FALSE
    ELSE IF a = "" THEN TRUE
    ELSE IF Char(a, 1) = Char(b, 1)
         THEN StrLess(SubSeq(a, 2, Len(a)), SubSeq(b, 2, Len(b)))
         ELSE Code(Char(a, 1)) < Code(Char(b, 1))

RECURSIVE Sorted(_)
\* sorted(S) of a set of strings
Sorted(S) ==
    IF S = {} THEN <<>>
    ELSE LET m == CHOOSE x \in S : \A y \in S \ {x} : StrLess(x, y)
         IN  <<m>> \o Sorted(S \ {m})

RECURSIVE Join(_, _)
\* sep.join(parts)
Join(sep, parts) ==
    IF parts = <<>> THEN ""
    ELSE IF Len(parts) = 1 THEN parts[1]
    ELSE parts[1] \o sep \o Join(sep, Tail(parts))

RECURSIVE Zeros(_)
Zeros(k) == IF k <= 0 THEN "" ELSE "0" \o Zeros(k - 1)

\* f"{idx:05d}"
Pad5(idx) == Zeros(5 - Len(ToString(idx))) \o ToString(idx)

\* Path(name).suffix
Suffix(name) ==
    LET dots == {i \in 2..Len(name) : Char(name, i) = "."}
    IN  IF dots = {} THEN ""
        ELSE SubSeq(name, CHOOSE i \in dots : \A j \in dots : j <= i, Len(name))

Range(f) == {f[i] : i \in DOMAIN f}

\* every order of the set S
Orders(S) == {o \in [1..Cardinality(S) -> S] : Range(o) = S}

\* ------------------------------------------------------------------------
\* State
\* ------------------------------------------------------------------------
VARIABLES
    script,           \* the script this behaviour runs
    pc,               \* its position
    raised,           \* the exception that ended it, NoError while there is none
    ds,               \* the PlantVillage examples in iteration order: label indices
    cocoaDir,         \* training/data/Cocoa: existing sub-directory -> file names
    outExists,        \* training/datasets/ccmt_cls exists
    dirs,             \* its class directories, <<split, class>>
    files,            \* its files, <<split, class, name>> -> the example written
    images_by_class,  \* extract_plantvillage's result
    saveQueue,        \* classes main has still to pass to save_split
    cocoaQueue,       \* sub-directories copy_cocoa_data has still to visit
    runs,             \* invocations of prepare_dataset so far
    firstRun,         \* the files the first invocation left
    assets,           \* app/src/main/assets: model.tflite and labels.txt, None when absent
    bestPt,           \* runs/ccmt_cls/weights/best.pt exists
    class_names,      \* best_model.names: class index -> folder name
    export_path,      \* what best_model.export returned
    tflite_path,      \* the exported file main settled on
    labels,           \* generate_labels' result
    ds_all,           \* train_mobilenet's example stream: (image, label) pairs
    num_classes,      \* outputs of the model build_model builds
    epoch,            \* epochs model.fit has completed
    trainedOn,        \* images some training pass has fed the model
    validatedOn       \* images some validation pass has used

prepVars == <<ds, cocoaDir, outExists, dirs, files, images_by_class, saveQueue,
              cocoaQueue, runs, firstRun>>

yoloVars == <<bestPt, class_names, export_path, tflite_path, labels>>

mobVars == <<ds_all, num_classes, epoch, trainedOn, validatedOn>>

vars == <<script, pc, raised, prepVars, assets, yoloVars, mobVars>>

\* ------------------------------------------------------------------------
\* prepare_dataset.py
\* ------------------------------------------------------------------------
SEED == 42
\* VAL_RATIO = 0.2 as the fraction VAL_RATIO_NUM / VAL_RATIO_DEN
VAL_RATIO_NUM == 1
VAL_RATIO_DEN == 5

PV_LABEL_MAP ==
    << [keyword |-> "corn",   condition |-> "common_rust",  folder |-> "maize__rust"],
       [keyword |-> "corn",   condition |-> "healthy",      folder |-> "maize__healthy"],
       [keyword |-> "tomato", condition |-> "early_blight", folder |-> "tomato__early_blight"],
       [keyword |-> "tomato", condition |-> "healthy",      folder |-> "tomato__healthy"] >>

ALL_CLASSES ==
    << "cocoa__black_pod", "cocoa__healthy", "maize__rust", "maize__healthy",
       "tomato__early_blight", "tomato__healthy" >>

Splits == <<"train", "val">>

\* info.features["label"].names: label names of the plant_village dataset
LabelNames ==
    << "Apple___Cedar_apple_rust", "Corn___Common_rust", "Corn___healthy",
       "Corn___Northern_Leaf_Blight", "Potato___Early_blight",
       "Tomato___Early_blight", "Tomato___healthy", "Tomato___Late_blight" >>

match_pv_label(name) ==
    LET nl   == Lower(name)
        hits == {k \in 1..Len(PV_LABEL_MAP) :
                    /\ Contains(nl, PV_LABEL_MAP[k].keyword)
                    /\ Contains(nl, PV_LABEL_MAP[k].condition)}
    IN  IF hits = {} THEN None
        ELSE PV_LABEL_MAP[CHOOSE k \in hits : \A j \in hits : k <= j].folder

\* the index -> folder mapping extract_plantvillage builds
idx_to_folder ==
    [i \in {j \in 1..Len(LabelNames) : match_pv_label(LabelNames[j]) # None}
        |-> match_pv_label(LabelNames[i])]

RECURSIVE Distinct(_)
\* the first occurrences of a sequence, in order (the keys of a dict built from it)
Distinct(seq) ==
    IF seq = <<>> THEN <<>>
    ELSE LET init == Distinct(SubSeq(seq, 1, Len(seq) - 1))
             last == seq[Len(seq)]
         IN  IF last \in Range(init) THEN init ELSE Append(init, last)

\* the keys of images_by_class, in insertion order
ClassKeys ==
    Distinct([k \in 1..Cardinality(DOMAIN idx_to_folder) |->
        idx_to_folder[CHOOSE i \in DOMAIN idx_to_folder :
            Cardinality({j \in DOMAIN idx_to_folder : j < i}) = k - 1]])

\* the image of the example at position p of the dataset
PvImage(p) == "pv:" \o ToString(p)

\* ScanPlantVillage with count never incremented
ScanPlantVillageNoCount(d) ==
    LET matched == SelectSeq([p \in 1..Len(d) |-> p],
                             LAMBDA p : d[p] \in DOMAIN idx_to_folder)
    IN  [f \in Range(ClassKeys) |->
            LET mine == SelectSeq(matched, LAMBDA p : idx_to_folder[d[p]] = f)
            IN  [k \in 1..Len(mine) |-> [image |-> PvImage(mine[k]), idx |-> 0]]]

\* the loop over the dataset: each matched example, numbered by count
ScanPlantVillage(d) ==
    LET matched == SelectSeq([p \in 1..Len(d) |-> p],
                             LAMBDA p : d[p] \in DOMAIN idx_to_folder)
        entries == [k \in 1..Len(matched) |->
                       [image |-> PvImage(matched[k]), idx |-> k - 1,
                        folder |-> idx_to_folder[d[matched[k]]]]]
    IN  [f \in Range(ClassKeys) |->
            LET mine == SelectSeq(entries, LAMBDA e : e.folder = f)
            IN  [k \in 1..Len(mine) |-> [image |-> mine[k].image, idx |-> mine[k].idx]]]

\* numpy.random.RandomState(SEED).permutation(n), the index order
\* train_test_split(random_state=SEED) takes its test and train indices from
Permutation42 ==
    << <<0>>,
       <<1, 0>>,
       <<0, 1, 2>>,
       <<1, 3, 0, 2>>,
       <<1, 4, 2, 0, 3>>,
       <<0, 1, 5, 2, 4, 3>>,
       <<0, 1, 5, 2, 4, 3, 6>>,
       <<1, 5, 0, 7, 2, 4, 3, 6>>,
       <<7, 1, 5, 0, 8, 2, 4, 3, 6>>,
       <<8, 1, 5, 0, 7, 2, 9, 4, 3, 6>>,
       <<5, 0, 9, 10, 2, 1, 8, 4, 7, 3, 6>>,
       <<10, 9, 0, 8, 5, 2, 1, 11, 4, 7, 3, 6>>,
       <<11, 9, 0, 8, 5, 2, 1, 12, 4, 7, 10, 3, 6>>,
       <<9, 11, 0, 12, 5, 8, 2, 1, 13, 4, 7, 10, 3, 6>>,
       <<5, 11, 0, 12, 9, 8, 2, 1, 13, 4, 7, 10, 14, 3, 6>>,
       <<0, 1, 5, 11, 8, 13, 9, 15, 12, 2, 4, 7, 10, 14, 3, 6>> >>

\* NTest rounding down instead of up
NTestFloor(n) == (n * VAL_RATIO_NUM) \div VAL_RATIO_DEN

\* n_test = ceil(test_size * n_samples)
NTest(n) == (n * VAL_RATIO_NUM + VAL_RATIO_DEN - 1) \div VAL_RATIO_DEN

\* n_train = n_samples - n_test
NTrain(n) == n - NTest(n)

\* train_test_split raises ValueError when the train set would be empty
SplitRaises(images) == NTrain(Len(images)) = 0

\* train_test_split(images, test_size=VAL_RATIO, random_state=SEED)
train_test_split(images) ==
    LET n    == Len(images)
        perm == Permutation42[n]
        v    == NTest(n)
    IN  [val   |-> [i \in 1..v |-> images[perm[i] + 1]],
         train |-> [i \in 1..NTrain(n) |-> images[perm[v + i] + 1]]]

\* the file save_split writes for one image
PvFileName(class_name, idx) == class_name \o "_" \o Pad5(idx) \o ".jpg"

\* the files save_split writes: path -> image
SaveSplitWrites(images, class_name) ==
    LET parts == train_test_split(images)
        tr == {<<"train", class_name, PvFileName(class_name, parts.train[i].idx)>> :
                  i \in 1..Len(parts.train)}
        va == {<<"val", class_name, PvFileName(class_name, parts.val[i].idx)>> :
                  i \in 1..Len(parts.val)}
    IN  [p \in tr \cup va |->
            IF p[1] = "train"
            THEN (CHOOSE e \in Range(parts.train) : PvFileName(class_name, e.idx) = p[3]).image
            ELSE (CHOOSE e \in Range(parts.val) : PvFileName(class_name, e.idx) = p[3]).image]

cocoa_mapping ==
    << [src_subdir |-> "cocoa_black_pod", cls_name |-> "cocoa__black_pod"],
       [src_subdir |-> "healthy",         cls_name |-> "cocoa__healthy"] >>

CocoaExts == <<".jpg", ".jpeg", ".png">>

\* the image of a local cocoa file
CocoaImage(subdir, name) == "cocoa:" \o subdir \o "/" \o name

\* the lists the three globs of one sub-directory can return, concatenated:
\* a directory listing comes in no particular order
GlobOrders(names) ==
    LET of(ext) == {n \in names : EndsWith(n, ext)}
    IN  {a \o b \o c : a \in Orders(of(CocoaExts[1])), b \in Orders(of(CocoaExts[2])),
                       c \in Orders(of(CocoaExts[3]))}

\* the file copy_cocoa_data copies the i-th (from 0) image of a split to
CocoaFileName(cls_name, i, img_name) == cls_name \o "_" \o Pad5(i) \o Suffix(img_name)

\* the files copy_cocoa_data writes for one sub-directory: path -> image
CopyCocoaWrites(images, subdir, cls_name) ==
    LET parts == train_test_split(images)
        tr == [i \in 1..Len(parts.train) |->
                  <<"train", cls_name, CocoaFileName(cls_name, i - 1, parts.train[i])>>]
        va == [i \in 1..Len(parts.val) |->
                  <<"val", cls_name, CocoaFileName(cls_name, i - 1, parts.val[i])>>]
    IN  [p \in Range(tr) \cup Range(va) |->
            IF p[1] = "train"
            THEN CocoaImage(subdir, parts.train[CHOOSE i \in DOMAIN tr : tr[i] = p])
            ELSE CocoaImage(subdir, parts.val[CHOOSE i \in DOMAIN va : va[i] = p])]

NoFiles == [p \in {} |-> ""]

\* Clean without the rmtree of the existing output directory
CleanSkipsRmtree ==
    /\ script = "prepare_dataset" /\ pc = "clean"
    /\ pc' = "create_class_dirs"
    /\ UNCHANGED <<script, raised, prepVars, assets, yoloVars, mobVars>>

\* main: np.random.seed; an existing output directory is removed
Clean ==
    /\ script = "prepare_dataset" /\ pc = "clean"
    /\ outExists' = FALSE
    /\ dirs' = {}
    /\ files' = NoFiles
    /\ pc' = "create_class_dirs"
    /\ UNCHANGED <<script, raised, ds, cocoaDir, images_by_class, saveQueue,
                   cocoaQueue, runs, firstRun>>
    /\ UNCHANGED <<assets, yoloVars, mobVars>>

create_class_dirs ==
    /\ script = "prepare_dataset" /\ pc = "create_class_dirs"
    /\ outExists' = TRUE
    /\ dirs' = dirs \cup {<<Splits[s], ALL_CLASSES[c]>> :
                             s \in DOMAIN Splits, c \in DOMAIN ALL_CLASSES}
    /\ pc' = "extract_plantvillage"
    /\ UNCHANGED <<script, raised, ds, cocoaDir, files, images_by_class, saveQueue,
                   cocoaQueue, runs, firstRun>>
    /\ UNCHANGED <<assets, yoloVars, mobVars>>

extract_plantvillage ==
    /\ script = "prepare_dataset" /\ pc = "extract_plantvillage"
    /\ images_by_class' = ScanPlantVillage(ds)
    /\ saveQueue' = ClassKeys
    /\ pc' = "save_split"
    /\ UNCHANGED <<script, raised, ds, cocoaDir, outExists, dirs, files, cocoaQueue,
                   runs, firstRun>>
    /\ UNCHANGED <<assets, yoloVars, mobVars>>

\* one iteration of main's loop over images_by_class.items()
save_split ==
    /\ script = "prepare_dataset" /\ pc = "save_split"
    /\ LET class_name == Head(saveQueue)
           images     == images_by_class[class_name]
       IN  IF images = <<>>
           THEN /\ files' = files
                /\ raised' = raised
                /\ pc' = IF Tail(saveQueue) = <<>> THEN "copy_cocoa_data" ELSE "save_split"
           ELSE IF SplitRaises(images)
           THEN /\ files' = files
                /\ raised' = Error("ValueError", "save_split")
                /\ pc' = "error"
           ELSE /\ files' = SaveSplitWrites(images, class_name) @@ files
                /\ raised' = raised
                /\ pc' = IF Tail(saveQueue) = <<>> THEN "copy_cocoa_data" ELSE "save_split"
    /\ saveQueue' = Tail(saveQueue)
    \* copy_cocoa_data, which follows the loop, starts at the head of cocoa_mapping
    /\ cocoaQueue' = cocoa_mapping
    /\ UNCHANGED <<script, ds, cocoaDir, outExists, dirs, images_by_class, runs, firstRun>>
    /\ UNCHANGED <<assets, yoloVars, mobVars>>

\* one iteration of copy_cocoa_data's loop over cocoa_mapping.items()
copy_cocoa_data ==
    /\ script = "prepare_dataset" /\ pc = "copy_cocoa_data"
    /\ LET src_subdir == Head(cocoaQueue).src_subdir
           cls_name   == Head(cocoaQueue).cls_name
           next       == IF Tail(cocoaQueue) = <<>> THEN "done" ELSE "copy_cocoa_data"
       IN  IF src_subdir \notin DOMAIN cocoaDir
           THEN /\ files' = files
                /\ raised' = raised
                /\ pc' = next
           ELSE \E images \in GlobOrders(cocoaDir[src_subdir]) :
                   IF images = <<>>
                   THEN /\ files' = files
                        /\ raised' = raised
                        /\ pc' = next
                   ELSE IF SplitRaises(images)
                   THEN /\ files' = files
                        /\ raised' = Error("ValueError", "copy_cocoa_data")
                        /\ pc' = "error"
                   ELSE /\ files' = CopyCocoaWrites(images, src_subdir, cls_name) @@ files
                        /\ raised' = raised
                        /\ pc' = next
    /\ cocoaQueue' = Tail(cocoaQueue)
    /\ UNCHANGED <<script, ds, cocoaDir, outExists, dirs, images_by_class, saveQueue,
                   runs, firstRun>>
    /\ UNCHANGED <<assets, yoloVars, mobVars>>

\* prepare_dataset is invoked again, with the same seed, on the same inputs
RunAgain ==
    /\ script = "prepare_dataset" /\ pc = "done"
    /\ runs < MaxRuns
    /\ runs' = runs + 1
    /\ firstRun' = IF runs = 1 THEN files ELSE firstRun
    /\ images_by_class' = <<>>
    /\ pc' = "clean"
    /\ UNCHANGED <<script, raised, ds, cocoaDir, outExists, dirs, files, saveQueue,
                   cocoaQueue>>
    /\ UNCHANGED <<assets, yoloVars, mobVars>>

\* ------------------------------------------------------------------------
\* train_yolov8_cls.py
\* ------------------------------------------------------------------------
FOLDER_TO_LABEL ==
    ("cocoa__black_pod" :> "Cocoa:cocoa_black_pod")
    @@ ("cocoa__healthy" :> "Cocoa:healthy")
    @@ ("maize__rust" :> "Maize:maize_rust")
    @@ ("maize__healthy" :> "Maize:healthy")
    @@ ("tomato__early_blight" :> "Tomato:tomato_early_blight")
    @@ ("tomato__healthy" :> "Tomato:healthy")

\* FallbackLabel without the special case of the healthy condition
FallbackLabelNoHealthy(name) ==
    LET parts == Split1(name, "__")
    IN  IF Len(parts) = 2
        THEN Capitalize(parts[1]) \o ":" \o parts[1] \o "_" \o parts[2]
        ELSE name

\* generate_labels' fallback for a name that is not in FOLDER_TO_LABEL
FallbackLabel(name) ==
    LET parts == Split1(name, "__")
    IN  IF Len(parts) = 2
        THEN LET crop == parts[1]
                 condition == parts[2]
             IN  IF condition = "healthy"
                 THEN Capitalize(crop) \o ":healthy"
                 ELSE Capitalize(crop) \o ":" \o crop \o "_" \o condition
        ELSE name

\* the body of generate_labels' loop: the label of one name
LabelOf(name) ==
    IF name \in DOMAIN FOLDER_TO_LABEL THEN FOLDER_TO_LABEL[name] ELSE FallbackLabel(name)

generate_labels(model_names) == [i \in 1..Len(model_names) |-> LabelOf(model_names[i])]

\* the class folders of the dataset's train split
TrainFolders == {d[2] : d \in {d \in dirs : d[1] = "train"}}

\* ModelNames in the order ALL_CLASSES lists the folders, the others after them
ModelNamesListed(folders) ==
    LET listed == SelectSeq(ALL_CLASSES, LAMBDA f : f \in folders)
        s      == listed \o Sorted(folders \ Range(ALL_CLASSES))
    IN  [i \in 0..(Len(s) - 1) |-> s[i + 1]]

\* the names of a classifier trained on the dataset: index -> folder name,
\* the folder names in sorted order
ModelNames(folders) ==
    LET s == Sorted(folders) IN [i \in 0..(Len(s) - 1) |-> s[i + 1]]

\* OrderedNames with the keys in descending order
OrderedNamesDescending(names) ==
    [k \in 1..Cardinality(DOMAIN names) |->
        names[CHOOSE i \in DOMAIN names : Cardinality({j \in DOMAIN names : j > i}) = k - 1]]

\* [class_names[i] for i in sorted(class_names.keys())]
OrderedNames(names) ==
    [k \in 1..Cardinality(DOMAIN names) |->
        names[CHOOSE i \in DOMAIN names : Cardinality({j \in DOMAIN names : j < i}) = k - 1]]

\* the text dst_labels.write_text("\n".join(labels)) leaves
LabelsText(ls) == Join("\n", ls)

\* main: the dataset directory must exist
YoloCheckDataset ==
    /\ script = "train_yolov8_cls" /\ pc = "check_dataset"
    /\ IF ~outExists
       THEN raised' = Error("FileNotFoundError", "dataset") /\ pc' = "error"
       ELSE raised' = raised /\ pc' = "train"
    /\ UNCHANGED <<script, prepVars, assets, yoloVars, mobVars>>

\* main: model.train(...); the run may or may not leave best.pt
YoloTrain ==
    /\ script = "train_yolov8_cls" /\ pc = "train"
    /\ bestPt' \in BOOLEAN
    /\ pc' = "locate_best"
    /\ UNCHANGED <<script, raised, prepVars, assets, class_names, export_path,
                   tflite_path, labels, mobVars>>

\* main: locate best weights
YoloLocateBest ==
    /\ script = "train_yolov8_cls" /\ pc = "locate_best"
    /\ IF ~bestPt
       THEN raised' = Error("FileNotFoundError", "best_pt") /\ pc' = "error"
       ELSE raised' = raised /\ pc' = "export"
    /\ UNCHANGED <<script, prepVars, assets, yoloVars, mobVars>>

\* export has not run
NoExport == [is_dir |-> FALSE, path |-> None, tflite |-> {}]

\* what export may return: the .tflite file, or a directory with its .tflite files
ExportPaths ==
    { [is_dir |-> FALSE, path |-> "best_float32.tflite", tflite |-> {}],
      [is_dir |-> TRUE, path |-> "best_saved_model", tflite |-> {}],
      [is_dir |-> TRUE, path |-> "best_saved_model",
       tflite |-> {"best_saved_model/best_float32.tflite"}],
      [is_dir |-> TRUE, path |-> "best_saved_model",
       tflite |-> {"best_saved_model/best_float16.tflite",
                   "best_saved_model/best_float32.tflite"}] }

\* main: best_model = YOLO(best_pt); export to TFLite
YoloExport ==
    /\ script = "train_yolov8_cls" /\ pc = "export"
    /\ class_names' = ModelNames(TrainFolders)
    /\ export_path' \in ExportPaths
    /\ pc' = "find_tflite"
    /\ UNCHANGED <<script, raised, prepVars, assets, bestPt, tflite_path, labels, mobVars>>

\* YoloFindTflite without the check for an empty export directory
YoloFindTfliteNoCheck ==
    /\ script = "train_yolov8_cls" /\ pc = "find_tflite"
    /\ raised' = raised
    /\ pc' = "generate_labels"
    /\ IF export_path.is_dir /\ export_path.tflite # {}
       THEN tflite_path' \in export_path.tflite
       ELSE tflite_path' = export_path.path
    /\ UNCHANGED <<script, prepVars, assets, bestPt, class_names, export_path, labels,
                   mobVars>>

\* main: find the exported .tflite file
YoloFindTflite ==
    /\ script = "train_yolov8_cls" /\ pc = "find_tflite"
    /\ IF export_path.is_dir
       THEN IF export_path.tflite = {}
            THEN /\ raised' = Error("FileNotFoundError", "tflite")
                 /\ pc' = "error"
                 /\ tflite_path' = tflite_path
            ELSE /\ raised' = raised
                 /\ pc' = "generate_labels"
                 /\ tflite_path' \in export_path.tflite
       ELSE /\ raised' = raised
            /\ pc' = "generate_labels"
            /\ tflite_path' = export_path.path
    /\ UNCHANGED <<script, prepVars, assets, bestPt, class_names, export_path, labels,
                   mobVars>>

\* main: generate labels from the model's class order
YoloGenerateLabels ==
    /\ script = "train_yolov8_cls" /\ pc = "generate_labels"
    /\ labels' = generate_labels(OrderedNames(class_names))
    /\ pc' = "copy_model"
    /\ UNCHANGED <<script, raised, prepVars, assets, bestPt, class_names, export_path,
                   tflite_path, mobVars>>

\* main: shutil.copy2(tflite_path, dst_model)
YoloCopyModel ==
    /\ script = "train_yolov8_cls" /\ pc = "copy_model"
    /\ assets' = [assets EXCEPT !.model = "yolo:" \o tflite_path]
    /\ pc' = "write_labels"
    /\ UNCHANGED <<script, raised, prepVars, yoloVars, mobVars>>

\* main: dst_labels.write_text(...)
YoloWriteLabels ==
    /\ script = "train_yolov8_cls" /\ pc = "write_labels"
    /\ assets' = [assets EXCEPT !.labels = LabelsText(labels)]
    /\ pc' = "done"
    /\ UNCHANGED <<script, raised, prepVars, yoloVars, mobVars>>

\* ------------------------------------------------------------------------
\* train_mobilenet.py
\* ------------------------------------------------------------------------
EPOCHS == 8
\* EarlyStopping(patience=3)
PATIENCE == 3
\* the enumerated positions with idx % VAL_EVERY == 0 are the validation examples
VAL_EVERY == 5
\* num_classes = 6
NUM_CLASSES == 6

LABELS ==
    << "Cocoa:cocoa_black_pod", "Cocoa:healthy", "Maize:maize_rust", "Maize:healthy",
       "Tomato:tomato_early_blight", "Tomato:healthy" >>

\* the LeafLens index main gives a PlantVillage label name, None when it matches no branch
LeafIndex(name) ==
    LET nl == Lower(name)
    IN  IF Contains(nl, "tomato") /\ Contains(nl, "early") /\ Contains(nl, "blight") THEN 4
        ELSE IF Contains(nl, "tomato") /\ Contains(nl, "healthy") THEN 5
        ELSE IF (Contains(nl, "maize") \/ Contains(nl, "corn"))
                /\ (Contains(nl, "rust") \/ Contains(nl, "common_rust")) THEN 2
        ELSE IF (Contains(nl, "maize") \/ Contains(nl, "corn")) /\ Contains(nl, "healthy") THEN 3
        ELSE -1

pv_to_leaf ==
    [i \in {j \in 1..Len(LabelNames) : LeafIndex(LabelNames[j]) # -1}
        |-> LeafIndex(LabelNames[i])]

\* valid = set(pv_to_leaf.keys())
valid == DOMAIN pv_to_leaf

\* mapping = [0] * len(label_names), then mapping[k] = v for the matched labels
mapping == [i \in 1..Len(LabelNames) |-> IF i \in DOMAIN pv_to_leaf THEN pv_to_leaf[i] ELSE 0]

\* filter_fn keeping every example
filter_fn_keeps_all(label) == TRUE

filter_fn(label) == label \in valid

map_fn(p, label) == [image |-> PvImage(p), label |-> mapping[label]]

\* ds_pv.filter(filter_fn).map(map_fn)
FilterMap(d) ==
    LET kept == SelectSeq([p \in 1..Len(d) |-> p], LAMBDA p : filter_fn(d[p]))
    IN  [k \in 1..Len(kept) |-> map_fn(kept[k], d[kept[k]])]

cocoa_subdirs ==
    << [subdir |-> "cocoa_black_pod", leaf_idx |-> 0],
       [subdir |-> "healthy",         leaf_idx |-> 1] >>

\* the (image, label) pairs of one cocoa sub-directory, for one order of its globs
CocoaPairs(m, order) ==
    [i \in 1..Len(order) |->
        [image |-> CocoaImage(cocoa_subdirs[m].subdir, order[i]),
         label |-> cocoa_subdirs[m].leaf_idx]]

\* the orders the globs of sub-directory m can come in, none when it is absent
CocoaOrders(m) ==
    IF cocoa_subdirs[m].subdir \in DOMAIN cocoaDir
    THEN GlobOrders(cocoaDir[cocoa_subdirs[m].subdir])
    ELSE {<<>>}

\* the examples at the enumerated positions (from 0) that is_train keeps
TrainPart(order) ==
    {order[i] : i \in {j \in 1..Len(order) : (j - 1) % VAL_EVERY # 0}}

\* the examples at the enumerated positions (from 0) that is_val keeps
ValPart(order) ==
    {order[i] : i \in {j \in 1..Len(order) : (j - 1) % VAL_EVERY = 0}}

\* the orders one iteration of ds_all.shuffle(5000, seed=SEED) can produce:
\* the stream is reshuffled on every iteration
ShuffleOrders == Orders({ds_all[i].image : i \in DOMAIN ds_all})

\* main: load PlantVillage, match its labels, filter and map; add the cocoa
\* files; build the model
MobLoad ==
    /\ script = "train_mobilenet" /\ pc = "load"
    /\ \E o1 \in CocoaOrders(1), o2 \in CocoaOrders(2) :
          ds_all' = FilterMap(ds) \o CocoaPairs(1, o1) \o CocoaPairs(2, o2)
    /\ num_classes' = NUM_CLASSES
    /\ pc' = "fit_train"
    /\ UNCHANGED <<script, raised, prepVars, assets, yoloVars, epoch, trainedOn, validatedOn>>

\* model.fit: the training pass of one epoch iterates ds_train
MobTrainPass ==
    /\ script = "train_mobilenet" /\ pc = "fit_train"
    /\ \E order \in ShuffleOrders : trainedOn' = trainedOn \cup TrainPart(order)
    /\ pc' = "fit_val"
    /\ UNCHANGED <<script, raised, prepVars, assets, yoloVars, ds_all, num_classes, epoch,
                   validatedOn>>

\* model.fit: the validation pass of one epoch iterates ds_val; fit ends after
\* EPOCHS epochs, or earlier when EarlyStopping has seen PATIENCE epochs
\* without improvement
MobValPass ==
    /\ script = "train_mobilenet" /\ pc = "fit_val"
    /\ \E order \in ShuffleOrders : validatedOn' = validatedOn \cup ValPart(order)
    /\ epoch' = epoch + 1
    /\ \E stop \in BOOLEAN :
          /\ stop => epoch' > PATIENCE
          /\ ~stop => epoch' < EPOCHS
          /\ pc' = IF stop THEN "export" ELSE "fit_train"
    /\ UNCHANGED <<script, raised, prepVars, assets, yoloVars, ds_all, num_classes,
                   trainedOn>>

\* export_tflite(model, LABELS, tflite_path)
export_tflite ==
    /\ script = "train_mobilenet" /\ pc = "export"
    /\ assets' = [model |-> "mobilenet:" \o ToString(num_classes),
                  labels |-> LabelsText(LABELS)]
    /\ pc' = "done"
    /\ UNCHANGED <<script, raised, prepVars, yoloVars, mobVars>>

\* ------------------------------------------------------------------------
\* Inputs
\* ------------------------------------------------------------------------
NumLabels == Len(LabelNames)

\* a dataset: k examples of cycling labels, then n examples of label a
Dataset(k, a, n) ==
    [i \in 1..(k + n) |-> IF i <= k THEN ((i - 1) % NumLabels) + 1 ELSE a]

\* the i-th file of a local cocoa sub-directory
CocoaFilePattern == <<"pod_a.jpg", "pod_b.jpg", "pod_c.png", "notes.txt", "pod_d.jpeg">>
CocoaFile(i) ==
    IF i <= Len(CocoaFilePattern) THEN CocoaFilePattern[i]
    ELSE "pod_" \o ToString(i) \o ".jpg"

\* training/data/Cocoa: each sub-directory absent (-1) or holding k files
CocoaDirs ==
    {[d \in {cocoa_mapping[m].src_subdir : m \in {m \in 1..2 : k[m] >= 0}} |->
         {CocoaFile(i) : i \in 1..k[CHOOSE m \in 1..2 : cocoa_mapping[m].src_subdir = d]}] :
     k \in [1..2 -> -1..MaxCocoa]}

\* what an earlier use may have left in the output directory
StaleDirs == {<<"train", "old_class">>, <<"train", "maize__rust">>, <<"val", "maize__rust">>}
StaleFiles ==
    (<<"train", "old_class", "old_class_00000.jpg">> :> "stale:1")
    @@ (<<"train", "maize__rust", "maize__rust_00000.jpg">> :> "stale:2")
    @@ (<<"val", "maize__rust", "maize__rust_00000.jpg">> :> "stale:3")

\* class folders a dataset directory may hold besides the six of ALL_CLASSES
OtherFolders == {"rice__blast", "Rice__healthy", "weeds", "sweetCorn___leaf__spot"}

\* the assets directory before a training script runs: empty, or an earlier export
NoAssets == [model |-> None, labels |-> None]
StaleAssets == [model |-> "stale", labels |-> "Old:label"]

PrepareIdle ==
    /\ images_by_class = <<>> /\ saveQueue = <<>> /\ cocoaQueue = <<>>
    /\ runs = 1 /\ firstRun = NoFiles

YoloIdle ==
    /\ bestPt = FALSE /\ class_names = <<>> /\ export_path = NoExport
    /\ tflite_path = None /\ labels = <<>>

MobIdle ==
    /\ ds_all = <<>> /\ num_classes = 0 /\ epoch = 0
    /\ trainedOn = {} /\ validatedOn = {}

InitPrepare ==
    /\ script = "prepare_dataset" /\ pc = "clean" /\ raised = NoError
    /\ \E k \in 0..MaxMixed, a \in 1..NumLabels, n \in 0..MaxRun : ds = Dataset(k, a, n)
    /\ cocoaDir \in CocoaDirs
    /\ \/ outExists = FALSE /\ dirs = {} /\ files = NoFiles
       \/ outExists = TRUE /\ dirs = StaleDirs /\ files = StaleFiles
    /\ assets = NoAssets
    /\ PrepareIdle /\ YoloIdle /\ MobIdle

InitYolo ==
    /\ script = "train_yolov8_cls" /\ pc = "check_dataset" /\ raised = NoError
    /\ ds = <<>> /\ cocoaDir = <<>>
    /\ \/ outExists = FALSE /\ dirs = {}
       \/ /\ outExists = TRUE
          /\ \E folders \in (SUBSET (Range(ALL_CLASSES) \cup OtherFolders)) \ {{}} :
                dirs = {<<Splits[s], f>> : s \in DOMAIN Splits, f \in folders}
    /\ files = NoFiles
    /\ assets \in {NoAssets, StaleAssets}
    /\ PrepareIdle /\ YoloIdle /\ MobIdle

InitMobilenet ==
    /\ script = "train_mobilenet" /\ pc = "load" /\ raised = NoError
    /\ \E k \in 0..MaxMixed, a \in 1..NumLabels, n \in 0..MaxStream :
          /\ k + n <= MaxStream
          /\ ds = Dataset(k, a, n)
    /\ cocoaDir \in CocoaDirs
    /\ Len(ds) + Cardinality(UNION {cocoaDir[d] \X {d} : d \in DOMAIN cocoaDir}) <= MaxStream
    /\ outExists = FALSE /\ dirs = {} /\ files = NoFiles
    /\ assets = NoAssets
    /\ PrepareIdle /\ YoloIdle /\ MobIdle

Init == InitPrepare \/ InitYolo \/ InitMobilenet

Next ==
    \/ Clean
    \/ create_class_dirs
    \/ extract_plantvillage
    \/ save_split
    \/ copy_cocoa_data
    \/ RunAgain
    \/ YoloCheckDataset
    \/ YoloTrain
    \/ YoloLocateBest
    \/ YoloExport
    \/ YoloFindTflite
    \/ YoloGenerateLabels
    \/ YoloCopyModel
    \/ YoloWriteLabels
    \/ MobLoad
    \/ MobTrainPass
    \/ MobValPass
    \/ export_tflite

Spec == Init /\ [][Next]_vars

\* ------------------------------------------------------------------------
\* Properties
\* ------------------------------------------------------------------------
PrepareDone == script = "prepare_dataset" /\ pc = "done"
YoloDone == script = "train_yolov8_cls" /\ pc = "done"
MobilenetDone == script = "train_mobilenet" /\ pc = "done"

ClassSet == Range(ALL_CLASSES)
CocoaClasses == {"cocoa__black_pod", "cocoa__healthy"}
MaizeTomatoClasses == {"maize__rust", "maize__healthy", "tomato__early_blight", "tomato__healthy"}

\* the folders of the rules of PV_LABEL_MAP a label name satisfies
RuleHits(name) ==
    {PV_LABEL_MAP[k].folder : k \in {j \in 1..Len(PV_LABEL_MAP) :
        /\ Contains(Lower(name), PV_LABEL_MAP[j].keyword)
        /\ Contains(Lower(name), PV_LABEL_MAP[j].condition)}}

\* RuleHits of every label of the dataset, by label index
LabelHits == [i \in 1..Len(LabelNames) |-> RuleHits(LabelNames[i])]

\* the branch of train_mobilenet's matching every label takes, by label index
LabelLeaf == [i \in 1..Len(LabelNames) |-> LeafIndex(LabelNames[i])]

\* the PlantVillage examples whose label satisfies a rule for class c
CollectedPv(c) ==
    {PvImage(q) : q \in {r \in 1..Len(ds) : c \in LabelHits[ds[r]]}}

\* the image files of the local cocoa sub-directory of class c
CollectedCocoa(c) ==
    UNION {{CocoaImage(cocoa_mapping[m].src_subdir, n) :
               n \in {x \in cocoaDir[cocoa_mapping[m].src_subdir] :
                         \E e \in DOMAIN CocoaExts : EndsWith(x, CocoaExts[e])}} :
           m \in {j \in DOMAIN cocoa_mapping :
                     /\ cocoa_mapping[j].cls_name = c
                     /\ cocoa_mapping[j].src_subdir \in DOMAIN cocoaDir}}

Collected(c) == CollectedPv(c) \cup CollectedCocoa(c)

FilesIn(f, split, c) == {p \in DOMAIN f : p[1] = split /\ p[2] = c}

\* C1: when prepare_dataset has finished, for every class the files in
\* train/<class> and val/<class> together number the examples collected for
\* it, and every collected example is the content of exactly one file, which
\* lies in its class.
C1_CountsAddUp ==
    PrepareDone =>
        \A c \in ClassSet :
            LET collected == Collected(c)
            IN  /\ Cardinality(FilesIn(files, "train", c))
                       + Cardinality(FilesIn(files, "val", c)) = Cardinality(collected)
                /\ \A e \in collected :
                       /\ Cardinality({p \in DOMAIN files : files[p] = e}) = 1
                       /\ \A p \in DOMAIN files : files[p] = e => p[2] = c

C1_Witness ==
    /\ PrepareDone
    /\ \E c \in MaizeTomatoClasses : Cardinality(Collected(c)) >= 2
    /\ \E c \in CocoaClasses : Cardinality(Collected(c)) >= 2

RECURSIVE SplitAll(_, _)
\* the parts of s between the occurrences of sep
SplitAll(s, sep) ==
    LET at == Find(s, sep)
    IN  IF at = 0 THEN <<s>>
        ELSE <<SubSeq(s, 1, at - 1)>> \o SplitAll(SubSeq(s, at + Len(sep), Len(s)), sep)

\* the lines of a text file
Lines(text) == IF text = "" THEN <<>> ELSE SplitAll(text, "\n")

\* the lines of labels.txt
ManifestLines == Lines(assets.labels)

\* C3: a written labels.txt has one line per class of the trained model, in
\* class index order.  train_yolov8_cls: line i is generate_labels of the
\* name of class i.  train_mobilenet: the model has 6 outputs, the manifest is
\* LABELS, and the index of every matched PlantVillage label (2..5) and of
\* every cocoa folder (0, 1) is the position in LABELS of the label of its
\* class, with or without cocoa data.
C3_ManifestMatchesModel ==
    /\ YoloDone =>
          LET lines == ManifestLines
          IN  /\ Len(lines) = Cardinality(DOMAIN class_names)
              /\ Cardinality(DOMAIN class_names) = Cardinality(TrainFolders)
              /\ DOMAIN class_names = 0..(Cardinality(TrainFolders) - 1)
              /\ \A i \in DOMAIN class_names :
                    lines[i + 1] = generate_labels(<<class_names[i]>>)[1]
    /\ MobilenetDone =>
          LET lines == ManifestLines
          IN  /\ num_classes = 6
              /\ Len(lines) = num_classes
              /\ lines = LABELS
              /\ \A i \in DOMAIN pv_to_leaf :
                    /\ pv_to_leaf[i] \in 2..5
                    /\ LabelHits[i] # {}
                    /\ \A f \in LabelHits[i] : lines[pv_to_leaf[i] + 1] = FOLDER_TO_LABEL[f]
              /\ \A m \in DOMAIN cocoa_subdirs :
                    /\ cocoa_subdirs[m].leaf_idx \in 0..1
                    /\ \E k \in DOMAIN cocoa_mapping :
                          /\ cocoa_mapping[k].src_subdir = cocoa_subdirs[m].subdir
                          /\ lines[cocoa_subdirs[m].leaf_idx + 1]
                                = FOLDER_TO_LABEL[cocoa_mapping[k].cls_name]
              /\ \A i \in DOMAIN ds_all : ds_all[i].label \in 0..(num_classes - 1)

C3_Witness ==
    /\ YoloDone
    /\ Cardinality(DOMAIN class_names) >= 3
    /\ \E i \in DOMAIN class_names : class_names[i] \notin DOMAIN FOLDER_TO_LABEL

\* which split each example was written to
Partition(f) == {<<f[p], p[1]>> : p \in DOMAIN f}

\* C4: a second run of prepare_dataset with the same seed over the same set of
\* inputs puts every example in the split the first run put it in.
C4_SamePartition ==
    (PrepareDone /\ runs >= 2) => Partition(files) = Partition(firstRun)

NoCocoaImages == \A c \in CocoaClasses : CollectedCocoa(c) = {}

\* C5: when prepare_dataset has finished, the class directories of train/ and
\* of val/ are exactly the six distinct names of ALL_CLASSES and every file
\* lies in one of them, whatever the output directory held before; without
\* cocoa images copy_cocoa_data raises nothing and the cocoa folders are empty.
C5_ClosedClassSet ==
    /\ PrepareDone =>
          /\ Cardinality(ClassSet) = Len(ALL_CLASSES)
          /\ Len(ALL_CLASSES) = 6
          /\ {d[1] : d \in dirs} = Range(Splits)
          /\ \A s \in Range(Splits) : {d[2] : d \in {x \in dirs : x[1] = s}} = ClassSet
          /\ \A p \in DOMAIN files : <<p[1], p[2]>> \in dirs
          /\ NoCocoaImages =>
                \A c \in CocoaClasses, s \in Range(Splits) :
                    <<s, c>> \in dirs /\ FilesIn(files, s, c) = {}
    /\ (script = "prepare_dataset" /\ NoCocoaImages) => raised.at # "copy_cocoa_data"

C5_Witness ==
    /\ PrepareDone
    /\ NoCocoaImages
    /\ runs = 2
    /\ firstRun # NoFiles
    /\ files # NoFiles

PvImages == {PvImage(q) : q \in 1..Len(ds)}

\* C6: every PlantVillage example is written under at most one class, a
\* maize or tomato class whose rule its label satisfies, and under none when
\* its label satisfies no rule; in train_mobilenet an example whose label
\* matches no branch is in no stream, and every PlantVillage example of the
\* stream carries an index in 2..5, never the default 0.
C6_UnmatchedDropped ==
    /\ script = "prepare_dataset" =>
          \A q \in 1..Len(ds) :
              LET at      == {p \in DOMAIN files : files[p] = PvImage(q)}
                  classes == {p[2] : p \in at}
                  hits    == LabelHits[ds[q]]
              IN  /\ Cardinality(classes) <= 1
                  /\ classes \subseteq (hits \cap MaizeTomatoClasses)
                  /\ hits = {} => at = {}
                  /\ hits = {} =>
                        \A f \in DOMAIN images_by_class :
                            \A k \in DOMAIN images_by_class[f] :
                                images_by_class[f][k].image # PvImage(q)
    /\ script = "train_mobilenet" =>
          /\ \A q \in 1..Len(ds) :
                LabelLeaf[ds[q]] = -1 =>
                    /\ \A i \in DOMAIN ds_all : ds_all[i].image # PvImage(q)
                    /\ PvImage(q) \notin trainedOn \cup validatedOn
          /\ \A i \in DOMAIN ds_all :
                ds_all[i].image \in PvImages => ds_all[i].label \in 2..5

C6_Witness ==
    /\ MobilenetDone
    /\ \E q \in 1..Len(ds) : LabelLeaf[ds[q]] = -1
    /\ \E i \in DOMAIN ds_all : ds_all[i].image \in PvImages

YoloErrors ==
    {Error("FileNotFoundError", "dataset"), Error("FileNotFoundError", "best_pt"),
     Error("FileNotFoundError", "tflite")}

YoloBeforeTraining == {"check_dataset"}
YoloUpToLocate == {"check_dataset", "train", "locate_best"}
YoloUpToFind == YoloUpToLocate \cup {"export", "find_tflite"}

\* the three checks of train_yolov8_cls.main have passed
YoloChecksPassed ==
    /\ outExists
    /\ bestPt
    /\ export_path # NoExport
    /\ export_path.is_dir => export_path.tflite # {}
    /\ pc \notin YoloUpToFind

\* C7, in every state: main ends in error only with FileNotFoundError; a
\* missing dataset directory ends it before training, a missing best.pt and an
\* export directory without .tflite file end it too
C7_Failures ==
    script = "train_yolov8_cls" =>
        /\ (pc = "error") = (raised # NoError)
        /\ raised # NoError => raised \in YoloErrors
        /\ (~outExists /\ pc \notin YoloBeforeTraining) =>
               /\ raised = Error("FileNotFoundError", "dataset")
               /\ ~bestPt /\ class_names = <<>>
        /\ (outExists /\ ~bestPt /\ pc \notin YoloUpToLocate) =>
               raised = Error("FileNotFoundError", "best_pt")
        /\ (pc \notin YoloUpToFind /\ export_path # NoExport) =>
               ((export_path.is_dir /\ export_path.tflite = {}) =>
                    raised = Error("FileNotFoundError", "tflite"))

\* C7, in every step: a step that ends in error leaves both asset files as
\* they were, and a step changes an asset file only when all three checks have
\* passed
C7_AssetSteps ==
    script = "train_yolov8_cls" =>
        /\ pc' = "error" => assets' = assets
        /\ pc = "error" => assets' = assets
        /\ assets' # assets => YoloChecksPassed /\ raised = NoError

\* C7: train_yolov8_cls.main fails with FileNotFoundError when the dataset
\* directory is missing (before training), when best.pt is missing and when
\* the export directory holds no .tflite file; an error outcome leaves
\* model.tflite and labels.txt untouched, and both are written only after all
\* three checks have passed.
C7_ErrorsLeaveAssets == [](C7_Failures) /\ [][C7_AssetSteps]_vars

C7_Witness ==
    /\ script = "train_yolov8_cls"
    /\ raised = Error("FileNotFoundError", "tflite")
    /\ assets = StaleAssets

\* the first "__" of a name, 0 when it has none
FirstSeparator(name) ==
    IF \E i \in 1..(Len(name) - 1) : SubSeq(name, i, i + 1) = "__"
    THEN CHOOSE i \in 1..(Len(name) - 1) :
            /\ SubSeq(name, i, i + 1) = "__"
            /\ \A j \in 1..(i - 1) : SubSeq(name, j, j + 1) # "__"
    ELSE 0

\* the label the rule of the comment above FOLDER_TO_LABEL gives a name
RuleLabel(name) ==
    LET at == FirstSeparator(name)
        crop == SubSeq(name, 1, at - 1)
        condition == SubSeq(name, at + 2, Len(name))
    IN  IF at = 0 THEN name
        ELSE IF condition = "healthy" THEN Capitalize(crop) \o ":healthy"
        ELSE Capitalize(crop) \o ":" \o crop \o "_" \o condition

\* on the six names of the table the fallback gives the table's entry
FallbackAgreesWithTable ==
    /\ DOMAIN FOLDER_TO_LABEL = ClassSet
    /\ \A f \in ClassSet : FallbackLabel(f) = FOLDER_TO_LABEL[f]
    /\ \A f \in ClassSet : RuleLabel(f) = FOLDER_TO_LABEL[f]

YoloLabelled == script = "train_yolov8_cls" /\ pc \in {"copy_model", "write_labels", "done"}

\* C8: generate_labels returns one label per name, label i from name i alone:
\* the table entry of a name of FOLDER_TO_LABEL, else the rule's label; and
\* on the six names of the table the rule gives the table's entry.
C8_GenerateLabels ==
    /\ YoloLabelled =>
          LET names == OrderedNames(class_names)
          IN  /\ Len(labels) = Len(names)
              /\ \A i \in 1..Len(names) :
                    labels[i] = IF names[i] \in DOMAIN FOLDER_TO_LABEL
                                THEN FOLDER_TO_LABEL[names[i]]
                                ELSE RuleLabel(names[i])
    /\ YoloLabelled => FallbackAgreesWithTable

C8_Witness ==
    /\ YoloLabelled
    /\ {"maize__rust", "Rice__healthy", "rice__blast", "weeds", "sweetCorn___leaf__spot"}
          \subseteq Range(class_names)
    /\ "Rice:healthy" \in Range(labels)
    /\ "weeds" \in Range(labels)

\* C9: no example train_mobilenet has trained on in some epoch is used for
\* validation, and the two passes of an epoch split the stream in two.
C9_TrainValDisjoint ==
    script = "train_mobilenet" => trainedOn \cap validatedOn = {}

\* the manifest train_yolov8_cls wrote for the six folders of ALL_CLASSES
YoloSixClassManifest == YoloDone /\ TrainFolders = ClassSet

\* C10 as claimed: for the six-class taxonomy train_yolov8_cls writes the
\* manifest train_mobilenet writes, line for line.
C10_SameManifest ==
    YoloSixClassManifest => ManifestLines = LABELS

\* C10: for the six-class taxonomy the manifest of train_yolov8_cls has the
\* six labels of LABELS, the same at indices 0, 1, 4 and 5, with the two maize
\* labels exchanged: Maize:healthy at index 2 and Maize:maize_rust at index 3.
C10_MaizeLinesSwapped ==
    YoloSixClassManifest =>
        LET lines == ManifestLines
        IN  /\ Len(lines) = Len(LABELS)
            /\ Range(lines) = Range(LABELS)
            /\ \A i \in {0, 1, 4, 5} : lines[i + 1] = LABELS[i + 1]
            /\ lines[2 + 1] = LABELS[3 + 1] /\ lines[2 + 1] = "Maize:healthy"
            /\ lines[3 + 1] = LABELS[2 + 1] /\ lines[3 + 1] = "Maize:maize_rust"

C10_Witness == YoloSixClassManifest /\ Len(ManifestLines) = 6

====
